---- MODULE Spec2Model ----
(***************************************************************************)
(* MongoIndexRaptor (mongo_index_perf_test): the measurement harness       *)
(* IndexPerformanceTester (tester.py), its statistics reducer              *)
(* _calculate_results, the TestResult record (models.py) and the           *)
(* orchestrator main (main.py).                                            *)
(*                                                                         *)
(* Numbers.  Python floats are modelled as exact fractions <<num, den>>    *)
(* with den > 0; elapsed times are integer ticks.  The field stdev_time    *)
(* holds the radicand of statistics.stdev (the sample variance): the       *)
(* square root is monotone and maps 0 to 0.                                *)
(***************************************************************************)
EXTENDS Integers, Sequences, FiniteSets, TLC

\* ------------------------------------------------------------------ bounds
MaxIter == 4
MaxWarm == 1
MaxInterval == 2
MaxLen == 6
MaxTime == 3
MaxQueries == 2

VARIABLES
    \* ---- tester.py: one call of test_index_performance
    iterations,         \* argument iterations
    warmup_iterations,  \* argument warmup_iterations
    sample_interval,    \* argument sample_interval
    query,              \* argument query
    index_hint,         \* argument index_hint
    commands,           \* cursors executed or explained, in order (observation)
    hpc,                \* position inside test_index_performance
    version,            \* _clear_plan_cache: local `version` (build_info.get)
    warmed,             \* _perform_warmup: finds executed so far
    i,                  \* _perform_testing: loop index
    times,              \* _perform_testing: list times
    docs_examined,      \* _perform_testing: list docs_examined
    keys_examined,      \* _perform_testing: list keys_examined
    docs_returned,      \* _perform_testing: list docs_returned
    calls,              \* database calls issued, in order (observation)
    failures,           \* calls and conversions that raised, in order (observation)
    warned,             \* logger.warning("Failed to clear plan cache") issued
    kwargs,             \* keyword arguments _calculate_results evaluated
    result,             \* value returned to the caller, or NoResult
    raised,             \* exception that left test_index_performance
    \* ---- main.py: one run of main
    config_data,        \* the entries of the configuration file, as json.load returns them
    test_queries,       \* load_test_queries(args.test_config)
    output_format,      \* args.output_format
    mpc,                \* position inside main
    attempt,            \* loop variable of the retry loop
    opened,             \* clients created by MongoDBConnection.__enter__
    closed,             \* clients closed by MongoDBConnection.__exit__
    connected,          \* the MongoDBConnection of the with block is open
    query_ix,           \* position of `for query in test_queries`
    hint_ix,            \* position of `for hint in query.hints`
    results,            \* list results of the current query
    tested_queries,     \* set tested_queries
    tested_hints,       \* set tested_hints of the current query
    sleeps,             \* time.sleep delays, in order (observation)
    connects,           \* outcomes of the connection attempts (observation)
    harness_calls,      \* test_index_performance calls (observation)
    skipped_hints,      \* hints passed over by `continue` (observation)
    sink_calls,         \* save_results calls (observation)
    origin,             \* exception raised inside the try block
    uncaught            \* exception that left main

hvars == <<query, index_hint, iterations, warmup_iterations, sample_interval, hpc, version, warmed,
           i, times, docs_examined, keys_examined, docs_returned, calls, failures,
           warned, kwargs, result, raised, commands>>

mvars == <<config_data, test_queries, output_format, mpc, attempt, opened, closed, connected, query_ix, hint_ix,
           results, tested_queries, tested_hints, sleeps, connects, harness_calls,
           skipped_hints, sink_calls, origin, uncaught>>

vars == <<hvars, mvars>>

\* ------------------------------------------------------------ number model
Zero == <<0, 1>>

IsZero(f) == f[1] = 0

Leq(a, b) == a[1] * b[2] <= b[1] * a[2]

RECURSIVE Sum(_)
Sum(s) == IF s = <<>> THEN 0 ELSE Head(s) + Sum(Tail(s))

RECURSIVE SumSq(_)
SumSq(s) == IF s = <<>> THEN 0 ELSE Head(s) * Head(s) + SumSq(Tail(s))

RECURSIVE Insert(_, _)
Insert(x, s) ==
    IF s = <<>> THEN <<x>>
    ELSE IF x <= Head(s) THEN <<x>> \o s
    ELSE <<Head(s)>> \o Insert(x, Tail(s))

RECURSIVE Sorted(_)
Sorted(s) == IF s = <<>> THEN <<>> ELSE Insert(Head(s), Sorted(Tail(s)))

\* statistics.mean of a non-empty list
Mean(s) == <<Sum(s), Len(s)>>

\* statistics.variance (the radicand of statistics.stdev), len(s) > 1
Variance(s) == <<Len(s) * SumSq(s) - Sum(s) * Sum(s), Len(s) * (Len(s) - 1)>>

\* statistics.quantiles(data, n=100)[k - 1], method 'exclusive', data sorted
QuantileIndex(ld, k) ==
    LET j == (k * (ld + 1)) \div 100
    IN  IF j < 1 THEN 1 ELSE IF j > ld - 1 THEN ld - 1 ELSE j

Quantile(data, k) ==
    LET ld == Len(data)
        j == QuantileIndex(ld, k)
        delta == k * (ld + 1) - j * 100
    IN  <<data[j] * (100 - delta) + data[j + 1] * delta, 100>>

\* ------------------------------------------------------- models.py TestResult
None == "None"
NoResult == [none |-> "NoResult"]
NoKwargs == [none |-> "NoKwargs"]

TestResultRequired ==
    {"query", "hint", "iteration", "warmup_iteration", "sample_interval",
     "avg_time", "min_time", "max_time", "stdev_time"}

TestResultDefaults ==
    [percentile_95 |-> Zero, percentile_99 |-> Zero,
     avg_docs_examined |-> Zero, avg_keys_examined |-> Zero, error |-> None]

TestResultFields == TestResultRequired \cup DOMAIN TestResultDefaults

\* the dataclass-generated __init__ accepts exactly its fields as keywords
TestResultAccepts(kw) ==
    /\ DOMAIN kw \subseteq TestResultFields
    /\ TestResultRequired \subseteq DOMAIN kw

TestResult(kw) ==
    [f \in TestResultFields |->
        IF f \in DOMAIN kw THEN kw[f] ELSE TestResultDefaults[f]]

IsTestResult(r) == "error" \in DOMAIN r

\* ------------------------------------------------------------ tester.py
\* the database's answers to a timed find: <<elapsed ticks, documents returned>>
FindOutcomes == {<<1, 0>>, <<2, 1>>, <<3, 1>>}

\* the database's answers to explain: <<totalDocsExamined, totalKeysExamined>>
\* (<<0, 0>> is also what stats.get(..., 0) yields when the keys are absent)
ExplainOutcomes == {<<0, 0>>, <<5, 3>>}

\* version strings the server may report, split at "."
Versions ==
    {<<"4", "4">>, <<"4", "4", "0">>, <<"4", "2">>, <<"5", "0">>, <<"4">>,
     <<"4", "4", "0-rc1">>, <<"">>}

NoVersion == <<>>

\* int(part): defined on decimal strings only
IntOf == [s \in {"0", "2", "4", "5"} |->
            CASE s = "0" -> 0 [] s = "2" -> 2 [] s = "4" -> 4 [] s = "5" -> 5]

CanParseVersion(v) == \A k \in 1..Len(v) : v[k] \in DOMAIN IntOf

parse_version(v) == [k \in 1..Len(v) |-> IntOf[v[k]]]

\* Python tuple comparison a >= b
RECURSIVE TupleGE(_, _)
TupleGE(a, b) ==
    IF b = <<>> THEN TRUE
    ELSE IF a = <<>> THEN FALSE
    ELSE IF Head(a) # Head(b) THEN Head(a) > Head(b)
    ELSE TupleGE(Tail(a), Tail(b))

UsesAdminCommand(v) == TupleGE(parse_version(v), parse_version(<<"4", "4">>))

\* the planCacheClear variant _clear_plan_cache issues for a parsable version
PlanCacheClearCommand(v) ==
    IF UsesAdminCommand(v) THEN "planCacheClear.admin" ELSE "planCacheClear.db"

\* faulty variant of ErrorResult: the except branch reports the timings gathered so far
ErrorResultKeepsStats ==
    TestResult([query |-> "query", hint |-> "hint", iteration |-> iterations,
                warmup_iteration |-> warmup_iterations,
                sample_interval |-> sample_interval,
                avg_time |-> IF times # <<>> THEN Mean(times) ELSE Zero,
                min_time |-> Zero, max_time |-> Zero,
                stdev_time |-> Zero, error |-> "PyMongoError"])

\* the TestResult of the except branch of test_index_performance
ErrorResult ==
    TestResult([query |-> "query", hint |-> "hint", iteration |-> iterations,
                warmup_iteration |-> warmup_iterations,
                sample_interval |-> sample_interval,
                avg_time |-> Zero, min_time |-> Zero, max_time |-> Zero,
                stdev_time |-> Zero, error |-> "PyMongoError"])

\* faulty variant of SampleCond: the guard sample_interval > 0 replaced by a clamp
SampleCondClamped(n) ==
    LET step == IF sample_interval > 0 THEN sample_interval ELSE 1
    IN  n % step = 0 \/ n = iterations - 1

\* faulty variant of SampleCond: the final iteration is not sampled for its own sake
SampleCondNoFinal(n) ==
    sample_interval > 0 /\ n % sample_interval = 0

\* the sampling condition of _perform_testing for loop index n
SampleCond(n) ==
    sample_interval > 0 /\ (n % sample_interval = 0 \/ n = iterations - 1)

\* faulty variant of Percentile: the guard is the two points statistics.quantiles needs
PercentileTwoPoints(sorted_times, k) ==
    IF Len(sorted_times) >= 2 THEN Quantile(sorted_times, k) ELSE Zero

\* percentile_95 / percentile_99 of _calculate_results (k = 95, 99)
Percentile(sorted_times, k) ==
    IF Len(sorted_times) >= 5 THEN Quantile(sorted_times, k) ELSE Zero

\* the keyword arguments _calculate_results evaluates for TestResult(...)
CalcKwargs(ts, de, ke, dr) ==
    LET sorted_times == Sorted(ts)
    IN  [query |-> "query", hint |-> "hint", iteration |-> iterations,
         warmup_iteration |-> warmup_iterations,
         sample_interval |-> sample_interval,
         avg_time |-> Mean(sorted_times),
         min_time |-> <<sorted_times[1], 1>>,
         max_time |-> <<sorted_times[Len(sorted_times)], 1>>,
         stdev_time |-> IF Len(sorted_times) > 1 THEN Variance(sorted_times) ELSE Zero,
         percentile_95 |-> Percentile(sorted_times, 95),
         percentile_99 |-> Percentile(sorted_times, 99),
         avg_docs_examined |-> IF de # <<>> THEN Mean(de) ELSE Zero,
         avg_keys_examined |-> IF ke # <<>> THEN Mean(ke) ELSE Zero,
         avg_docs_returned |-> IF dr # <<>> THEN Mean(dr) ELSE Zero]

\* ---- the cursor _build_query_cursor composes.  A cursor is the query it
\* will send: coll.find(filter, projection) with no sort, skip 0, limit 0
\* (no limit) and no hint; sort, skip, limit and hint each replace their field.
Find(filter, projection) ==
    [filter |-> filter, projection |-> projection, sort |-> <<>>, skip |-> 0,
     limit |-> 0, hint |-> <<>>]

CursorSort(c, key_list) == [c EXCEPT !.sort = key_list]

CursorSkip(c, n) == [c EXCEPT !.skip = n]

CursorLimit(c, n) == [c EXCEPT !.limit = n]

CursorHint(c, h) == [c EXCEPT !.hint = h]

\* _build_query_cursor(coll, query, index_hint)
BuildQueryCursor(q, h) ==
    LET found == IF "project" \notin DOMAIN q
                 THEN Find(q.filter, <<>>)
                 ELSE Find(q.filter, q.project)
        sorted == IF "sort" \in DOMAIN q /\ q.sort # <<>>
                  THEN CursorSort(found, q.sort) ELSE found
        skipped == IF "skip" \in DOMAIN q /\ q.skip # 0
                   THEN CursorSkip(sorted, q.skip) ELSE sorted
        limited == IF "limit" \in DOMAIN q /\ q.limit # 0
                   THEN CursorLimit(skipped, q.limit) ELSE skipped
    IN  IF h # <<>> THEN CursorHint(limited, h) ELSE limited

\* a query with a filter and nothing else
PlainQuery == [filter |-> <<<<"status", "active">>>>]

\* queries with every modifier, with every modifier falsy, with a limit only
QuerySpecs ==
    {PlainQuery,
     [filter |-> <<<<"status", "active">>>>, project |-> <<<<"age", 1>>>>,
      sort |-> <<<<"age", 1>>>>, skip |-> 2, limit |-> 5],
     [filter |-> <<<<"status", "active">>>>, sort |-> <<>>, skip |-> 0, limit |-> 0],
     [filter |-> <<<<"status", "active">>>>, limit |-> 5]}

IndexHints == {<<>>, <<<<"age", 1>>>>}

\* a PyMongoError reaches the except clause of test_index_performance
CaughtPyMongoError ==
    /\ result' = ErrorResult
    /\ hpc' = "done"
    /\ UNCHANGED <<kwargs, raised>>

\* any other exception leaves test_index_performance
Propagates(exc) ==
    /\ raised' = exc
    /\ hpc' = "done"
    /\ UNCHANGED <<result>>

\* main has not started: the state of the orchestrator's variables while a
\* single call of the harness, or the reducer, is examined on its own
MainIdle ==
    /\ config_data = <<>>
    /\ test_queries = <<>>
    /\ output_format = "table"
    /\ mpc = "idle"
    /\ attempt = 0
    /\ opened = 0
    /\ closed = 0
    /\ connected = FALSE
    /\ query_ix = 1
    /\ hint_ix = 1
    /\ results = <<>>
    /\ tested_queries = {}
    /\ tested_hints = {}
    /\ sleeps = <<>>
    /\ connects = <<>>
    /\ harness_calls = <<>>
    /\ skipped_hints = {}
    /\ sink_calls = <<>>
    /\ origin = None
    /\ uncaught = None

HarnessStart ==
    /\ hpc = "buildInfo"
    /\ version = NoVersion
    /\ warmed = 0
    /\ i = 0
    /\ times = <<>>
    /\ docs_examined = <<>>
    /\ keys_examined = <<>>
    /\ docs_returned = <<>>
    /\ calls = <<>>
    /\ commands = <<>>
    /\ failures = <<>>
    /\ warned = FALSE
    /\ kwargs = NoKwargs
    /\ result = NoResult
    /\ raised = None

InitHarness ==
    /\ query = PlainQuery
    /\ index_hint = <<>>
    /\ iterations \in 0..MaxIter
    /\ warmup_iterations \in 0..MaxWarm
    /\ sample_interval \in (0 - 1)..MaxInterval
    /\ HarnessStart
    /\ MainIdle

\* _clear_plan_cache: admin.command("buildInfo") and build_info.get("version", "")
BuildInfo ==
    /\ UNCHANGED mvars
    /\ UNCHANGED commands
    /\ hpc = "buildInfo"
    /\ calls' = Append(calls, <<"buildInfo", 0>>)
    /\ \/ /\ \E v \in Versions : version' = v
          /\ hpc' = "planCacheClear"
          /\ UNCHANGED <<result, raised, kwargs, failures>>
       \/ /\ CaughtPyMongoError
          /\ failures' = Append(failures, <<"buildInfo", 0>>)
          /\ UNCHANGED version
    /\ UNCHANGED <<query, index_hint, iterations, warmup_iterations, sample_interval, warmed, i, times,
                   docs_examined, keys_examined, docs_returned, warned>>

\* _clear_plan_cache: the try block choosing and issuing planCacheClear
PlanCacheClear ==
    /\ UNCHANGED mvars
    /\ UNCHANGED commands
    /\ hpc = "planCacheClear"
    /\ version' = NoVersion
    /\ IF ~CanParseVersion(version)
       THEN /\ Propagates("ValueError")
            /\ failures' = Append(failures, <<"parse_version", 0>>)
            /\ UNCHANGED <<calls, warned, kwargs>>
       ELSE /\ calls' = Append(calls, <<PlanCacheClearCommand(version), 0>>)
            /\ \/ /\ warned' = FALSE
                  /\ UNCHANGED failures
               \/ /\ warned' = TRUE
                  /\ failures' = Append(failures, <<PlanCacheClearCommand(version), 0>>)
            /\ hpc' = "warmup"
            /\ UNCHANGED <<result, raised, kwargs>>
    /\ UNCHANGED <<query, index_hint, iterations, warmup_iterations, sample_interval, warmed, i, times,
                   docs_examined, keys_examined, docs_returned>>

\* _perform_warmup: one pass of the loop body
WarmupFind ==
    /\ UNCHANGED mvars
    /\ hpc = "warmup"
    /\ warmed < warmup_iterations
    /\ calls' = Append(calls, <<"warmup", warmed>>)
    /\ commands' = Append(commands, <<"warmup", warmed,
                                      CursorLimit(BuildQueryCursor(query, index_hint), 0)>>)
    /\ \/ /\ warmed' = warmed + 1
          /\ UNCHANGED <<hpc, result, raised, kwargs, failures>>
       \/ /\ CaughtPyMongoError
          /\ failures' = Append(failures, <<"warmup", warmed>>)
          /\ UNCHANGED warmed
    /\ UNCHANGED <<query, index_hint, iterations, warmup_iterations, sample_interval, version, i, times,
                   docs_examined, keys_examined, docs_returned, warned>>

\* faulty variant of WarmupDone: the timed phase starts whatever was warmed
WarmupDoneEarly ==
    /\ UNCHANGED mvars
    /\ UNCHANGED commands
    /\ hpc = "warmup"
    /\ hpc' = "timed"
    /\ UNCHANGED <<query, index_hint, iterations, warmup_iterations, sample_interval, version, warmed, i,
                   times, docs_examined, keys_examined, docs_returned, calls, failures,
                   warned, kwargs, result, raised>>

\* _perform_warmup returns; _perform_testing initialises its lists
WarmupDone ==
    /\ UNCHANGED mvars
    /\ UNCHANGED commands
    /\ hpc = "warmup"
    /\ warmed >= warmup_iterations
    /\ hpc' = "timed"
    /\ UNCHANGED <<query, index_hint, iterations, warmup_iterations, sample_interval, version, warmed, i,
                   times, docs_examined, keys_examined, docs_returned, calls, failures,
                   warned, kwargs, result, raised>>

\* _perform_testing: the timed find of loop index i
TimedFind ==
    /\ UNCHANGED mvars
    /\ hpc = "timed"
    /\ i < iterations
    /\ calls' = Append(calls, <<"find", i>>)
    /\ commands' = Append(commands, <<"find", i, BuildQueryCursor(query, index_hint)>>)
    /\ \/ /\ \E o \in FindOutcomes :
                /\ docs_returned' = Append(docs_returned, o[2])
                /\ times' = Append(times, o[1])
          /\ IF SampleCond(i)
             THEN hpc' = "explain" /\ i' = i
             ELSE hpc' = "timed" /\ i' = i + 1
          /\ UNCHANGED <<result, raised, kwargs, failures>>
       \/ /\ CaughtPyMongoError
          /\ failures' = Append(failures, <<"find", i>>)
          /\ UNCHANGED <<i, times, docs_returned>>
    /\ UNCHANGED <<query, index_hint, iterations, warmup_iterations, sample_interval, version, warmed,
                   docs_examined, keys_examined, warned>>

\* _collect_execution_stats for loop index i
Explain ==
    /\ UNCHANGED mvars
    /\ hpc = "explain"
    /\ calls' = Append(calls, <<"explain", i>>)
    /\ commands' = Append(commands, <<"explain", i, BuildQueryCursor(query, index_hint)>>)
    /\ \/ /\ \E o \in ExplainOutcomes :
                /\ docs_examined' = Append(docs_examined, o[1])
                /\ keys_examined' = Append(keys_examined, o[2])
          /\ hpc' = "timed"
          /\ i' = i + 1
          /\ UNCHANGED <<result, raised, kwargs, failures>>
       \/ /\ CaughtPyMongoError
          /\ failures' = Append(failures, <<"explain", i>>)
          /\ UNCHANGED <<i, docs_examined, keys_examined>>
    /\ UNCHANGED <<query, index_hint, iterations, warmup_iterations, sample_interval, version, warmed,
                   times, docs_returned, warned>>

\* _perform_testing returns and _calculate_results builds the TestResult
Reduce ==
    /\ UNCHANGED mvars
    /\ UNCHANGED commands
    /\ hpc = "timed"
    /\ i >= iterations
    /\ IF times = <<>>
       THEN /\ Propagates("StatisticsError")
            /\ UNCHANGED kwargs
       ELSE LET kw == CalcKwargs(times, docs_examined, keys_examined, docs_returned)
            IN  /\ kwargs' = kw
                /\ IF TestResultAccepts(kw)
                   THEN /\ result' = TestResult(kw)
                        /\ hpc' = "done"
                        /\ UNCHANGED raised
                   ELSE Propagates("TypeError")
    /\ UNCHANGED <<query, index_hint, iterations, warmup_iterations, sample_interval, version, warmed, i,
                   times, docs_examined, keys_examined, docs_returned, calls, failures,
                   warned>>

NextHarness ==
    \/ BuildInfo
    \/ PlanCacheClear
    \/ WarmupFind
    \/ WarmupDone
    \/ TimedFind
    \/ Explain
    \/ Reduce

SpecHarness == InitHarness /\ [][NextHarness]_vars

\* ---------------------------------------- short trials of any query
\* one call of test_index_performance for every query and hint of
\* QuerySpecs and IndexHints, with few iterations
InitBuilder ==
    /\ query \in QuerySpecs
    /\ index_hint \in IndexHints
    /\ iterations \in 1..MaxInterval
    /\ warmup_iterations \in 0..MaxWarm
    /\ sample_interval \in 0..MaxInterval
    /\ HarnessStart
    /\ MainIdle

SpecBuilder == InitBuilder /\ [][NextHarness]_vars

\* ------------------------------------------------ the reducer on its own
\* _calculate_results applied to every list of at most MaxLen timings of
\* 1..MaxTime ticks, as left by a timed phase with sampling disabled.
TimingLists == UNION {[1..n -> 1..MaxTime] : n \in 0..MaxLen}

InitReducer ==
    /\ query = PlainQuery
    /\ index_hint = <<>>
    /\ times \in TimingLists
    /\ iterations = Len(times)
    /\ i = Len(times)
    /\ docs_returned = [k \in 1..Len(times) |-> 1]
    /\ warmup_iterations = 0
    /\ sample_interval = 0
    /\ hpc = "timed"
    /\ version = NoVersion
    /\ warmed = 0
    /\ docs_examined = <<>>
    /\ keys_examined = <<>>
    /\ calls = <<>>
    /\ commands = <<>>
    /\ failures = <<>>
    /\ warned = FALSE
    /\ kwargs = NoKwargs
    /\ result = NoResult
    /\ raised = None
    /\ MainIdle

NextReducer == Reduce

SpecReducer == InitReducer /\ [][NextReducer]_vars

\* ------------------------------------------------------------ config.py
max_retries == 3
retry_delay_base == 2

\* ------------------------------------------------------------ models.py TestQuery
TestQuery(name, query_document, hints, database, collection) ==
    [name |-> name, query |-> query_document, hints |-> hints,
     database |-> database, collection |-> collection]

\* a dict is modelled by its items in insertion order
Items(d) == {d[k] : k \in 1..Len(d)}

RECURSIVE Concat(_)
Concat(ss) == IF ss = <<>> THEN <<>> ELSE Head(ss) \o Concat(Tail(ss))

DirStr(n) == IF n = 1 THEN "1" ELSE "-1"

\* str(hint), as a token sequence
HintStr(h) ==
    <<"{">> \o Concat([k \in 1..Len(h) |-> <<h[k][1], ":", DirStr(h[k][2])>>]) \o <<"}">>

\* str(self.hints)
HintsStr(hs) == <<"[">> \o Concat([k \in 1..Len(hs) |-> HintStr(hs[k])]) \o <<"]">>

\* str(self.query)
QueryStr(q) ==
    <<"{">> \o Concat([k \in 1..Len(q) |-> <<q[k][1], ":", q[k][2]>>]) \o <<"}">>

\* data[key] of a dict modelled as a record; the absent key reads as None
Lookup(data, key) == IF key \in DOMAIN data THEN data[key] ELSE None

\* the exception TestQuery.from_dict(data) raises, or None: ValueError when
\* the key database or collection is absent, KeyError for data["name"] and
\* data["query"]; the values themselves are not inspected
FromDictException(data) ==
    IF "database" \notin DOMAIN data THEN "ValueError"
    ELSE IF "collection" \notin DOMAIN data THEN "ValueError"
    ELSE IF "name" \notin DOMAIN data \/ "query" \notin DOMAIN data THEN "KeyError"
    ELSE None

\* TestQuery.from_dict(data) when it raises nothing
from_dict(data) ==
    TestQuery(Lookup(data, "name"), Lookup(data, "query"),
              IF "hints" \in DOMAIN data THEN data["hints"] ELSE <<>>,
              Lookup(data, "database"), Lookup(data, "collection"))

\* faulty variant of TestQueryHash: database and collection enter the key
TestQueryHashWithTarget(t) ==
    <<QueryStr(t.query), HintsStr(t.hints), t.database, t.collection>>

\* TestQuery.__hash__: hash((str(self.query), str(self.hints)))
TestQueryHash(t) == <<QueryStr(t.query), HintsStr(t.hints)>>

\* ------------------------------------------------------------ main.py
\* main.py imports sys, json, time, argparse, os, datetime, List, ObjectId and
\* names of its own package; the name `errors` used by its except clause is
\* not among them
MainImportsErrors == FALSE

HintAB == <<<<"a", 1>>, <<"b", 1>>>>
HintBA == <<<<"b", 1>>, <<"a", 1>>>>
HintA == <<<<"a", 1>>>>
HintNone == <<>>

QueryX == <<<<"status", "active">>, <<"age", "30">>>>
QueryY == <<<<"status", "closed">>>>

\* entries a configuration file may hold: complete ones,
ConfigEntries ==
    {TestQuery("q1", QueryX, <<HintAB, HintBA, HintAB>>, "db", "users"),
     TestQuery("q2", QueryY, <<HintA, HintNone>>, "db", "users"),
     TestQuery("q3", QueryX, <<HintAB, HintBA, HintAB>>, "db2", "people"),
     TestQuery("q4", QueryY, <<>>, "db", "users")}

\* ... and ones with a key absent or with an empty database or collection
PartialEntries ==
    {[name |-> "q5", query |-> QueryY, collection |-> "users"],
     [name |-> "q5", query |-> QueryY, database |-> "db"],
     [query |-> QueryY, database |-> "db", collection |-> "users"],
     [name |-> "q5", query |-> QueryY, database |-> "db", collection |-> "users"],
     TestQuery("q6", QueryY, <<HintA>>, "", "users"),
     TestQuery("q6", QueryY, <<HintA>>, "db", "")}

Configs == UNION {[1..n -> ConfigEntries \cup PartialEntries] : n \in 1..MaxQueries}

Formats == {"table", "csv", "json"}

\* what the call of test_index_performance hands to main: a TestResult whose
\* error is None, a TestResult whose error is set, or an exception
HarnessOutcomes == {"ok", "error", "raise"}

\* what the file system does to save_results: nothing, os.makedirs raises,
\* or open/write raises
SinkOutcomes == {"ok", "makedirs_fails", "write_fails"}

RECURSIVE Pow(_, _)
Pow(b, e) == IF e = 0 THEN 1 ELSE b * Pow(b, e - 1)

\* faulty variant of HintKey: the hint's set of (key, value) pairs
HintKeyPairSet(h) == Items(h)

\* tuple(hint.items())
HintKey(h) == [k \in 1..Len(h) |-> <<h[k][1], h[k][2]>>]

\* faulty variant of MarkTested: the query is not recorded
MarkTestedNothing(t) == tested_queries

\* tested_queries.add(hash(query))
MarkTested(t) == tested_queries \cup {TestQueryHash(t)}

\* formatter.format(results): the exception it raises, or None.
\* TableFormatter reads results[0]; TableFormatter and CSVFormatter read
\* result.avg_docs_returned, which no TestResult has; JSONFormatter uses asdict.
FormatException(fmt, res) ==
    IF fmt = "table" /\ res = <<>> THEN "IndexError"
    ELSE IF fmt \in {"table", "csv"} /\ res # <<>> THEN "AttributeError"
    ELSE None

HarnessIdle ==
    /\ query = PlainQuery
    /\ index_hint = <<>>
    /\ iterations = 0
    /\ warmup_iterations = 0
    /\ sample_interval = 0
    /\ hpc = "idle"
    /\ version = NoVersion
    /\ warmed = 0
    /\ i = 0
    /\ times = <<>>
    /\ docs_examined = <<>>
    /\ keys_examined = <<>>
    /\ docs_returned = <<>>
    /\ calls = <<>>
    /\ commands = <<>>
    /\ failures = <<>>
    /\ warned = FALSE
    /\ kwargs = NoKwargs
    /\ result = NoResult
    /\ raised = None

InitMain ==
    /\ config_data \in Configs
    /\ test_queries = <<>>
    /\ output_format \in Formats
    /\ mpc = "load"
    /\ attempt = 0
    /\ opened = 0
    /\ closed = 0
    /\ connected = FALSE
    /\ query_ix = 1
    /\ hint_ix = 1
    /\ results = <<>>
    /\ tested_queries = {}
    /\ tested_hints = {}
    /\ sleeps = <<>>
    /\ connects = <<>>
    /\ harness_calls = <<>>
    /\ skipped_hints = {}
    /\ sink_calls = <<>>
    /\ origin = None
    /\ uncaught = None
    /\ HarnessIdle

\* MongoDBConnection.__enter__ returning: the client exists
Enter ==
    /\ connected' = TRUE
    /\ opened' = opened + 1
    /\ UNCHANGED closed

\* faulty variant of Exit: the client is left open
ExitLeavesOpen == UNCHANGED <<connected, closed, opened>>

\* MongoDBConnection.__exit__: `if self.client: self.client.close()`; the
\* with statement runs it however the block is left
Exit ==
    /\ connected' = FALSE
    /\ closed' = IF connected THEN closed + 1 ELSE closed
    /\ UNCHANGED opened

\* exception exc leaves the try block of the retry loop and meets
\* `except errors.ConnectionFailure`
ExceptClause(exc) ==
    /\ origin' = exc
    /\ IF ~MainImportsErrors
       THEN /\ uncaught' = "NameError"
            /\ mpc' = "traceback"
            /\ UNCHANGED <<attempt, sleeps>>
       ELSE IF exc # "ConnectionFailure"
       THEN /\ uncaught' = exc
            /\ mpc' = "traceback"
            /\ UNCHANGED <<attempt, sleeps>>
       ELSE IF attempt < max_retries - 1
       THEN /\ sleeps' = Append(sleeps, Pow(retry_delay_base, attempt))
            /\ attempt' = attempt + 1
            /\ mpc' = "connect"
            /\ UNCHANGED uncaught
       ELSE /\ uncaught' = "SystemExit"
            /\ mpc' = "exit1"
            /\ UNCHANGED <<attempt, sleeps>>

\* load_test_queries(args.test_config): every entry through
\* TestQuery.from_dict; any exception is logged and ends in sys.exit(1)
LoadTestQueries ==
    /\ mpc = "load"
    /\ IF \E k \in 1..Len(config_data) : FromDictException(config_data[k]) # None
       THEN /\ origin' = FromDictException(config_data[
                    CHOOSE k \in 1..Len(config_data) :
                        /\ FromDictException(config_data[k]) # None
                        /\ \A j \in 1..(k - 1) : FromDictException(config_data[j]) = None])
            /\ uncaught' = "SystemExit"
            /\ mpc' = "exit1"
            /\ UNCHANGED test_queries
       ELSE /\ test_queries' = [k \in 1..Len(config_data) |-> from_dict(config_data[k])]
            /\ mpc' = "connect"
            /\ UNCHANGED <<origin, uncaught>>
    /\ UNCHANGED <<config_data, output_format, attempt, opened, closed, connected, query_ix, hint_ix,
                   results, tested_queries, tested_hints, sleeps, connects,
                   harness_calls, skipped_hints, sink_calls>>
    /\ UNCHANGED hvars

\* `with MongoDBConnection(args.connection) as conn` of attempt `attempt`
Connect ==
    /\ mpc = "connect"
    /\ attempt < max_retries
    /\ \/ /\ connects' = Append(connects, "ok")
          /\ Enter
          /\ query_ix' = 1
          /\ mpc' = "query"
          /\ UNCHANGED <<attempt, sleeps, origin, uncaught>>
       \/ /\ connects' = Append(connects, "ConnectionFailure")
          /\ ExceptClause("ConnectionFailure")
          /\ UNCHANGED <<query_ix, opened, closed, connected>>
    /\ UNCHANGED <<config_data, test_queries, output_format, hint_ix, results, tested_queries,
                   tested_hints, harness_calls, skipped_hints, sink_calls>>
    /\ UNCHANGED hvars

\* faulty variant of MatrixDone: without the break the retry loop goes on
MatrixDoneNoBreak ==
    /\ mpc = "query"
    /\ query_ix > Len(test_queries)
    /\ Exit
    /\ attempt' = attempt + 1
    /\ mpc' = "connect"
    /\ UNCHANGED <<config_data, test_queries, output_format, query_ix, hint_ix, results,
                   tested_queries, tested_hints, sleeps, connects, harness_calls,
                   skipped_hints, sink_calls, origin, uncaught>>
    /\ UNCHANGED hvars

\* `for query in test_queries` is exhausted: the with block closes, break
MatrixDone ==
    /\ mpc = "query"
    /\ query_ix > Len(test_queries)
    /\ Exit
    /\ mpc' = "done"
    /\ UNCHANGED <<config_data, test_queries, output_format, attempt, query_ix, hint_ix, results,
                   tested_queries, tested_hints, sleeps, connects, harness_calls,
                   skipped_hints, sink_calls, origin, uncaught>>
    /\ UNCHANGED hvars

\* `if hash(query) in tested_queries: continue`
SkipQuery ==
    /\ mpc = "query"
    /\ query_ix <= Len(test_queries)
    /\ TestQueryHash(test_queries[query_ix]) \in tested_queries
    /\ query_ix' = query_ix + 1
    /\ UNCHANGED <<config_data, test_queries, output_format, mpc, attempt, opened, closed, connected, hint_ix,
                   results, tested_queries, tested_hints, sleeps, connects,
                   harness_calls, skipped_hints, sink_calls, origin, uncaught>>
    /\ UNCHANGED hvars

\* results = []; tested_hints = set()
StartQuery ==
    /\ mpc = "query"
    /\ query_ix <= Len(test_queries)
    /\ TestQueryHash(test_queries[query_ix]) \notin tested_queries
    /\ results' = <<>>
    /\ tested_hints' = {}
    /\ hint_ix' = 1
    /\ mpc' = "hint"
    /\ UNCHANGED <<config_data, test_queries, output_format, attempt, opened, closed, connected, query_ix,
                   tested_queries, sleeps, connects, harness_calls, skipped_hints,
                   sink_calls, origin, uncaught>>
    /\ UNCHANGED hvars

CurrentHints == test_queries[query_ix].hints

\* the TestResult main receives for hint h, reduced to what main reads
ResultOf(h, outcome) ==
    [hint |-> h, error |-> IF outcome = "ok" THEN None ELSE "PyMongoError"]

\* faulty variant of ResultsAfter: the result is appended before the test
ResultsAfterAlways(h, outcome) == Append(results, ResultOf(h, outcome))

\* `if result.error is None: results.append(result)`, else the result is dropped
ResultsAfter(h, outcome) ==
    IF ResultOf(h, outcome).error = None
    THEN Append(results, ResultOf(h, outcome))
    ELSE results

\* `if tuple(hint.items()) in tested_hints: continue`
SkipHint ==
    /\ mpc = "hint"
    /\ hint_ix <= Len(CurrentHints)
    /\ HintKey(CurrentHints[hint_ix]) \in tested_hints
    /\ hint_ix' = hint_ix + 1
    /\ skipped_hints' = skipped_hints \cup {<<query_ix, hint_ix>>}
    /\ UNCHANGED <<config_data, test_queries, output_format, mpc, attempt, opened, closed, connected, query_ix,
                   results, tested_queries, tested_hints, sleeps, connects,
                   harness_calls, sink_calls, origin, uncaught>>
    /\ UNCHANGED hvars

\* result = tester.test_index_performance(...) and the branch on result.error
TestHint ==
    /\ mpc = "hint"
    /\ hint_ix <= Len(CurrentHints)
    /\ HintKey(CurrentHints[hint_ix]) \notin tested_hints
    /\ \E outcome \in HarnessOutcomes :
        /\ harness_calls' = Append(harness_calls, <<query_ix, hint_ix, outcome>>)
        /\ CASE outcome = "ok" ->
                  /\ results' = ResultsAfter(CurrentHints[hint_ix], outcome)
                  /\ tested_hints' = tested_hints \cup {HintKey(CurrentHints[hint_ix])}
                  /\ hint_ix' = hint_ix + 1
                  /\ UNCHANGED <<mpc, attempt, opened, closed, connected, sleeps, origin, uncaught>>
             [] outcome = "error" ->
                  /\ results' = ResultsAfter(CurrentHints[hint_ix], outcome)
                  /\ hint_ix' = hint_ix + 1
                  /\ UNCHANGED <<tested_hints, mpc, attempt, opened, closed, connected, sleeps,
                                 origin, uncaught>>
             [] outcome = "raise" ->
                  /\ ExceptClause("HarnessException")
                  /\ Exit
                  /\ UNCHANGED <<results, tested_hints, hint_ix>>
    /\ UNCHANGED <<config_data, test_queries, output_format, query_ix, tested_queries, connects,
                   skipped_hints, sink_calls>>
    /\ UNCHANGED hvars

\* `for hint in query.hints` is exhausted: save_results, print, mark tested
SaveResults ==
    /\ mpc = "hint"
    /\ hint_ix > Len(CurrentHints)
    /\ \E fs \in SinkOutcomes :
      /\ sink_calls' = Append(sink_calls, <<query_ix, results, fs>>)
      /\ IF fs = "makedirs_fails"
         THEN /\ ExceptClause("OSError")
              /\ Exit
              /\ UNCHANGED <<tested_queries, query_ix>>
         ELSE IF FormatException(output_format, results) # None
         THEN /\ ExceptClause(FormatException(output_format, results))
              /\ Exit
              /\ UNCHANGED <<tested_queries, query_ix>>
         ELSE /\ tested_queries' = MarkTested(test_queries[query_ix])
              /\ query_ix' = query_ix + 1
              /\ mpc' = "query"
              /\ UNCHANGED <<attempt, opened, closed, connected, sleeps, origin, uncaught>>
    /\ UNCHANGED <<config_data, test_queries, output_format, hint_ix, results, tested_hints,
                   connects, harness_calls, skipped_hints>>
    /\ UNCHANGED hvars

NextMain ==
    \/ LoadTestQueries
    \/ Connect
    \/ MatrixDone
    \/ SkipQuery
    \/ StartQuery
    \/ SkipHint
    \/ TestHint
    \/ SaveResults

SpecMain == InitMain /\ [][NextMain]_vars

\* main is a sequential program: while a step is possible, one is taken
SpecMainFair == SpecMain /\ WF_vars(NextMain)

\* ---------------------------------------------------- harness: observations
Last(s) == s[Len(s)]

Positions(s, x) == {p \in 1..Len(s) : s[p] = x}

QueryCalls == {"find", "explain"}

ResetSteps == {"buildInfo", "parse_version", "planCacheClear.admin", "planCacheClear.db"}

NumericFields ==
    {"avg_time", "min_time", "max_time", "stdev_time", "percentile_95",
     "percentile_99", "avg_docs_examined", "avg_keys_examined"}

Returned == hpc = "done" /\ raised = None /\ IsTestResult(result)

\* C1: test_index_performance never raises to its caller: whenever the call
\* has ended, it has returned a TestResult and no exception has left it, and
\* every failure that ended it is recorded in TestResult.error.
C1_NeverRaises ==
    hpc = "done" =>
        /\ raised = None
        /\ IsTestResult(result)
        /\ (failures # <<>> /\ Last(failures)[1] \notin
                {"planCacheClear.admin", "planCacheClear.db"} => result.error # None)

\* C2: when a timed find or an explain fails at iteration k, the call has
\* ended there: the failed call is the last database call, it was issued
\* once (no retry), no later iteration ran, nothing was raised, and the
\* returned TestResult has error set and all eight numeric fields zero.
C2_TimedFailureAborts ==
    (failures # <<>> /\ Last(failures)[1] \in QueryCalls) =>
        /\ Returned
        /\ result.error # None
        /\ \A f \in NumericFields : IsZero(result[f])
        /\ Last(calls) = Last(failures)
        /\ Cardinality(Positions(calls, Last(failures))) = 1
        /\ \A p \in 1..Len(calls) :
              calls[p][1] \in QueryCalls => calls[p][2] <= Last(failures)[2]

\* C2 witness: a timed find failed at an iteration that is neither the first
\* nor the last of the trial, and the call has returned.
C2_Witness ==
    /\ failures # <<>>
    /\ Last(failures)[1] = "find"
    /\ Last(failures)[2] > 0
    /\ Last(failures)[2] < iterations - 1
    /\ Returned

Reduced == "avg_time" \in DOMAIN kwargs

Minimum(s) == CHOOSE x \in {s[k] : k \in 1..Len(s)} : \A k \in 1..Len(s) : x <= s[k]

Maximum(s) == CHOOSE x \in {s[k] : k \in 1..Len(s)} : \A k \in 1..Len(s) : x >= s[k]

\* the largest value left after one occurrence of the maximum is removed
SecondLargest(s) ==
    LET top == CHOOSE p \in 1..Len(s) : s[p] = Maximum(s)
    IN  Maximum([k \in 1..(Len(s) - 1) |-> IF k < top THEN s[k] ELSE s[k + 1]])

\* C7 as claimed: fewer than 5 timings give percentiles of exactly 0; 5 or
\* more give percentiles within [min_time, max_time] with p99 >= p95.
C7_PercentilesWithinRange ==
    Reduced =>
        IF Len(times) < 5
        THEN kwargs.percentile_95 = Zero /\ kwargs.percentile_99 = Zero
        ELSE /\ Leq(<<Minimum(times), 1>>, kwargs.percentile_95)
             /\ Leq(kwargs.percentile_95, kwargs.percentile_99)
             /\ Leq(kwargs.percentile_99, <<Maximum(times), 1>>)

\* C7 amended: fewer than 5 timings give percentiles of exactly 0; 5 or more
\* give min_time <= p95 <= p99, and p99 may exceed max_time by at most the
\* gap between the two largest timings (the exclusive method extrapolates).
C7_PercentilesAmended ==
    Reduced =>
        IF Len(times) < 5
        THEN kwargs.percentile_95 = Zero /\ kwargs.percentile_99 = Zero
        ELSE /\ kwargs.min_time = <<Minimum(times), 1>>
             /\ kwargs.max_time = <<Maximum(times), 1>>
             /\ Leq(kwargs.min_time, kwargs.percentile_95)
             /\ Leq(kwargs.percentile_95, kwargs.percentile_99)
             /\ Leq(kwargs.percentile_99,
                    <<2 * Maximum(times) - SecondLargest(times), 1>>)

\* C7 witness: five timings were reduced and the 99th percentile lies above
\* the largest of them.
C7_Witness ==
    /\ Reduced
    /\ Len(times) = 5
    /\ ~Leq(kwargs.percentile_99, kwargs.max_time)

\* C8: with sample_interval <= 0 no explain is ever issued and no plan sample
\* is collected; the reducer's avg_docs_examined and avg_keys_examined are
\* zero, and so are these fields of any TestResult that is returned.
C8_NoSamplingWhenDisabled ==
    sample_interval <= 0 =>
        /\ docs_examined = <<>>
        /\ keys_examined = <<>>
        /\ \A p \in 1..Len(calls) : calls[p][1] # "explain"
        /\ Reduced =>
              IsZero(kwargs.avg_docs_examined) /\ IsZero(kwargs.avg_keys_examined)
        /\ IsTestResult(result) =>
              IsZero(result.avg_docs_examined) /\ IsZero(result.avg_keys_examined)

\* C8 witness: sampling disabled with sample_interval = 0, several timed
\* iterations ran and the reducer has evaluated its averages.
C8_Witness ==
    /\ sample_interval = 0
    /\ Len(times) >= 2
    /\ Len(times) = iterations
    /\ Reduced

\* the sampling rule as the claim states it
C9_Sampled(k) ==
    sample_interval > 0 /\ (k % sample_interval = 0 \/ k = iterations - 1)

\* C9: an explain is issued only right after the timed find of the same
\* iteration and only when the sampling rule holds; a successful timed find
\* of a sampled iteration is followed by its explain; no iteration is
\* explained twice; the two sample lists always have equal length, and in a
\* trial whose timed phase ended without failure that length is the number
\* of sampled iterations.
C9_ExplainIffSampled ==
    /\ \A p \in 1..Len(calls) :
          calls[p][1] = "explain" =>
            /\ p > 1
            /\ calls[p - 1] = <<"find", calls[p][2]>>
            /\ C9_Sampled(calls[p][2])
            /\ Cardinality(Positions(calls, calls[p])) = 1
    /\ \A p \in 1..Len(calls) :
          (calls[p][1] = "find" /\ C9_Sampled(calls[p][2])) =>
            IF p < Len(calls) THEN calls[p + 1] = <<"explain", calls[p][2]>>
            ELSE hpc = "explain" \/ (failures # <<>> /\ Last(failures) = calls[p])
    /\ Len(docs_examined) = Len(keys_examined)
    /\ (hpc \in {"timed", "done"} /\ i >= iterations /\
          (failures = <<>> \/ Last(failures)[1] \notin QueryCalls \cup {"warmup", "buildInfo", "parse_version"})) =>
            Len(docs_examined) = Cardinality({k \in 0..(iterations - 1) : C9_Sampled(k)})

\* C9 witness: three iterations sampled every second one; the final iteration
\* is both a multiple of the interval and the last, and was explained once.
C9_Witness ==
    /\ sample_interval = 2
    /\ iterations = 3
    /\ i = 3
    /\ Len(docs_examined) = 2
    /\ Positions(calls, <<"explain", 2>>) # {}
    /\ Positions(calls, <<"explain", 1>>) = {}

\* C10: a failure in the plan-cache reset step (the buildInfo lookup, the
\* version parse, or the planCacheClear directive) does not abort the run:
\* the call does not end with that step, and its outcome is not caused by it.
C10_ResetFailureDoesNotAbort ==
    (hpc = "done" /\ failures # <<>> /\ failures[1][1] \in ResetSteps) =>
        /\ Last(calls)[1] \notin {"buildInfo", "planCacheClear.admin", "planCacheClear.db"}
             \/ (warmup_iterations = 0 /\ iterations = 0)
        /\ raised # "ValueError"
        /\ IsTestResult(result) /\ result.error # None => Last(failures)[1] \notin ResetSteps


\* ------------------------------------------------ orchestrator: observations
ConnectFailures == Cardinality(Positions(connects, "ConnectionFailure"))

\* the delays k consecutive failed attempts should have produced
Backoff(k) == [a \in 1..k |-> Pow(retry_delay_base, a - 1)]

Terminated == mpc \in {"traceback", "exit1", "done"}

\* C3: k < max_retries connection failures leave exactly k backoff sleeps of
\* retry_delay_base^0 .. retry_delay_base^(k-1) behind them, and main is
\* still running (it retries, and runs the matrix once a connection succeeds)
\* rather than having been ended by the connection failure.
C3_BackoffThenProceed ==
    ConnectFailures < max_retries =>
        /\ sleeps = Backoff(ConnectFailures)
        /\ ~(Terminated /\ origin = "ConnectionFailure")

\* C4: main is ended by connection failures only through its retry-exhausted
\* path: sys.exit(1) after exactly max_retries failed attempts, with no call
\* of test_index_performance.
C4_ExhaustedRetriesExit ==
    (Terminated /\ origin = "ConnectionFailure") =>
        /\ mpc = "exit1"
        /\ uncaught = "SystemExit"
        /\ Len(connects) = max_retries
        /\ ConnectFailures = max_retries
        /\ harness_calls = <<>>

\* a call of the harness for hint n of the query at position q
Tested(q, n) == \E p \in 1..Len(harness_calls) :
                    harness_calls[p][1] = q /\ harness_calls[p][2] = n

TestedOk(q, n) == \E p \in 1..Len(harness_calls) :
                    harness_calls[p] = <<q, n, "ok">>

SameQuery(a, b) ==
    /\ test_queries[a].query = test_queries[b].query
    /\ test_queries[a].hints = test_queries[b].hints

\* position b repeats an earlier entry of the configuration
Duplicate(b) == \E a \in 1..(b - 1) : SameQuery(a, b)

SinkCallsFor(q) == {p \in 1..Len(sink_calls) : sink_calls[p][1] = q}

\* C6: a configuration entry that repeats the query of an earlier entry is
\* skipped: the harness and the sink are never invoked for it, no entry
\* reaches the sink twice, and when main returns the first entry listing that
\* query has reached the sink exactly once.
C6_DuplicateQueryOnce ==
    \A b \in 1..Len(test_queries) :
        /\ Cardinality(SinkCallsFor(b)) <= 1
        /\ Duplicate(b) =>
             /\ SinkCallsFor(b) = {}
             /\ \A n \in 1..Len(test_queries[b].hints) : ~Tested(b, n)
        /\ (mpc = "done" /\ ~Duplicate(b)) => Cardinality(SinkCallsFor(b)) = 1

\* C6 witness: main has returned from a configuration whose second entry
\* repeats the first, which was tested and handed to the sink.
C6_Witness ==
    /\ mpc = "done"
    /\ Len(test_queries) >= 2
    /\ test_queries[1] = test_queries[2]
    /\ Tested(1, 1)
    /\ SinkCallsFor(1) # {}


\* the successful results of query q, in hint order, as main collected them
RECURSIVE OkResults(_, _)
OkResults(q, n) ==
    IF n = 0 THEN <<>>
    ELSE IF TestedOk(q, n)
         THEN Append(OkResults(q, n - 1), [hint |-> test_queries[q].hints[n], error |-> None])
         ELSE OkResults(q, n - 1)

\* C11: a hint whose TestResult carries an error does not end the hint loop:
\* when the results of a query reach the sink, every hint of the query was
\* either passed to test_index_performance or skipped as already tested, and
\* the list handed over holds exactly the error-free results in hint order.
C11_ErrorHintDropped ==
    /\ \A p \in 1..Len(sink_calls) :
         LET q == sink_calls[p][1]
         IN  /\ \A n \in 1..Len(test_queries[q].hints) :
                   Tested(q, n) \/ <<q, n>> \in skipped_hints
             /\ sink_calls[p][2] = OkResults(q, Len(test_queries[q].hints))
             /\ \A k \in 1..Len(sink_calls[p][2]) : sink_calls[p][2][k].error = None
    /\ (Terminated /\ origin = "HarnessException") =>
          Last(harness_calls)[3] = "raise"

\* C11 witness: the first hint of a query failed, a later hint of the same
\* query succeeded, and the sink received a list with that one result.
C11_Witness ==
    \E p \in 1..Len(sink_calls) :
        /\ <<sink_calls[p][1], 1, "error">> \in {harness_calls[k] : k \in 1..Len(harness_calls)}
        /\ TestedOk(sink_calls[p][1], 2)
        /\ Len(sink_calls[p][2]) = 1

\* C12: a query that ends with no successful result does not crash main,
\* whatever the output format: the formatter raises nothing for the empty
\* list, and the query is marked tested.
C12_EmptyResultsNoCrash ==
    \A p \in 1..Len(sink_calls) :
        (sink_calls[p][2] = <<>> /\ sink_calls[p][3] # "makedirs_fails") =>
            /\ ~(p = Len(sink_calls) /\ Terminated /\ origin \in {"IndexError", "AttributeError"})
            /\ (mpc # "hint" \/ query_ix # sink_calls[p][1]) =>
                  (Terminated /\ origin = "OSError") \/
                  TestQueryHash(test_queries[sink_calls[p][1]]) \in tested_queries

\* C14: a result-sink failure (the output directory cannot be created, or
\* the file cannot be opened or written) does not abort the run: main marks
\* the query tested and goes on.
C14_SinkFailureDoesNotAbort ==
    \A p \in 1..Len(sink_calls) :
        sink_calls[p][3] # "ok" =>
            ~(p = Len(sink_calls) /\ Terminated /\ origin = "OSError")


\* entry k of the configuration file has no database or no collection key
LacksTarget(k) ==
    "database" \notin DOMAIN config_data[k] \/ "collection" \notin DOMAIN config_data[k]

\* entry k names the empty string as its database or collection
EmptyTarget(k) ==
    Lookup(config_data[k], "database") = "" \/ Lookup(config_data[k], "collection") = ""

\* the load ended in sys.exit(1) before any connection attempt or measurement
LoadFailed ==
    /\ mpc = "exit1"
    /\ origin \in {"ValueError", "KeyError"}
    /\ uncaught = "SystemExit"
    /\ test_queries = <<>>
    /\ connects = <<>>
    /\ harness_calls = <<>>
    /\ sink_calls = <<>>

\* C13: once loading is over, it has failed whenever an entry lacks
\* database or collection or has an empty database or collection, and the
\* failure is a sys.exit(1) before any connection attempt or measurement.
C13_EmptyTargetRejected ==
    (mpc # "load" /\ \E k \in 1..Len(config_data) : LacksTarget(k) \/ EmptyTarget(k))
        => LoadFailed


\* C15: the connection is scoped. One client is created per successful
\* attempt, at most one is open at any time, none is open once main has
\* ended (normally, by an exception or by sys.exit), and an open
\* connection is eventually closed.
C15_ConnectionScoped ==
    /\ [](/\ opened = Cardinality(Positions(connects, "ok"))
          /\ opened - closed \in {0, 1}
          /\ connected <=> (opened - closed = 1)
          /\ Terminated => (~connected /\ closed = opened))
    /\ (connected ~> ~connected)

\* C15 witness: main was ended by an exception raised inside the with
\* block, and the one client it had created is closed.
C15_Witness ==
    /\ mpc = "traceback"
    /\ origin = "HarnessException"
    /\ opened = 1
    /\ closed = 1
    /\ ~connected


\* C19: once a connection attempt has succeeded there is no further
\* connection attempt and no backoff sleep, whatever the matrix does.
C19_NoReconnect ==
    [][Positions(connects, "ok") # {} => (connects' = connects /\ sleeps' = sleeps)]_vars

\* C19 witness: after the successful attempt a trial came back with a
\* connection-level error inside its TestResult, and main ran to its end
\* on that one connection.
C19_Witness ==
    /\ mpc = "done"
    /\ connects = <<"ok">>
    /\ sleeps = <<>>
    /\ \E p \in 1..Len(harness_calls) : harness_calls[p][3] = "error"

\* entries a and b list the same query and hints under another name,
\* database or collection
Renamed(a, b) ==
    /\ SameQuery(a, b)
    /\ \/ test_queries[a].name # test_queries[b].name
       \/ test_queries[a].database # test_queries[b].database
       \/ test_queries[a].collection # test_queries[b].collection

\* C20: the deduplication key of a query is made of its query document and
\* its hint list only: two entries have the same key exactly when these two
\* agree, and an entry that repeats the query and hints of an earlier entry
\* under another name, database or collection is skipped: no harness call,
\* no sink call.
C20_KeyIgnoresTarget ==
    /\ \A a, b \in 1..Len(test_queries) :
          (TestQueryHash(test_queries[a]) = TestQueryHash(test_queries[b])) <=> SameQuery(a, b)
    /\ \A b \in 1..Len(test_queries) :
          (\E a \in 1..(b - 1) : Renamed(a, b)) =>
              /\ SinkCallsFor(b) = {}
              /\ \A n \in 1..Len(test_queries[b].hints) : ~Tested(b, n)
              /\ (connected /\ query_ix > b) =>
                    TestQueryHash(test_queries[b]) \in tested_queries

\* C20 witness: main has returned; the second entry names another database
\* and collection for the query and hints of the first, which was measured.
C20_Witness ==
    /\ mpc = "done"
    /\ Len(test_queries) = 2
    /\ Renamed(1, 2)
    /\ test_queries[1].database # test_queries[2].database
    /\ TestedOk(1, 1)
    /\ SinkCallsFor(1) # {}
    /\ SinkCallsFor(2) = {}


\* _calculate_results has been entered: it returned its keyword arguments
\* or raised out of statistics.mean / TestResult(...)
ReducerInvoked == Reduced \/ raised \in {"StatisticsError", "TypeError"}

\* C16: the harness reaches the reduction only with a non-empty list of
\* timings; in particular with iterations = 0 the reducer is never invoked
\* on an empty list.
C16_ReductionHasTimes == ReducerInvoked => times # <<>>

\* the phase call p of the harness belongs to, by position in
\* <<reset, warm-up, timed>>
PhaseOf(p) ==
    IF calls[p][1] = "warmup" THEN 2
    ELSE IF calls[p][1] \in {"find", "explain"} THEN 3
    ELSE 1

WarmupCalls == {p \in 1..Len(calls) : calls[p][1] = "warmup"}

TimedCalls == {p \in 1..Len(calls) : calls[p][1] \in {"find", "explain"}}

\* C17: the harness runs plan-cache reset, warm-up, timed phase and
\* reduction in this order. The warm-up executes the query exactly
\* warmup_iterations times, all of them before the first timed execution,
\* and leaves times, docs_returned, docs_examined and keys_examined empty;
\* with warmup_iterations = 0 it is a no-op that leads to the timed phase.
C17_PhaseOrder ==
    /\ \A p, q \in 1..Len(calls) :
          p < q => PhaseOf(p) <= PhaseOf(q)
    /\ (WarmupCalls # {} \/ TimedCalls # {} \/ hpc \in {"warmup", "timed", "explain"}) =>
          /\ Len(calls) >= 2
          /\ calls[1] = <<"buildInfo", 0>>
          /\ PhaseOf(2) = 1
    /\ (TimedCalls # {} \/ hpc \in {"timed", "explain"} \/ ReducerInvoked) =>
          /\ Cardinality(WarmupCalls) = warmup_iterations
          /\ \A w \in 0..(warmup_iterations - 1) : \E p \in WarmupCalls : calls[p] = <<"warmup", w>>
          /\ <<"warmup", warmup_iterations>> \notin {calls[p] : p \in WarmupCalls}
    /\ TimedCalls = {} =>
          /\ times = <<>>
          /\ docs_returned = <<>>
          /\ docs_examined = <<>>
          /\ keys_examined = <<>>
    /\ ReducerInvoked =>
          Cardinality({p \in TimedCalls : calls[p][1] = "find"}) = iterations

\* C17 witness: a call with warm-up went through warm-up and timed phase to
\* the reduction.
C17_Witness ==
    /\ warmup_iterations >= 1
    /\ iterations >= 2
    /\ ReducerInvoked
    /\ Cardinality(WarmupCalls) = warmup_iterations
    /\ Len(times) = iterations


\* the query the builder rule composes from query q and hint h: the filter,
\* the projection if present, sort, skip and limit only when truthy, the
\* hint only when non-empty
ComposedQuery(q, h) ==
    [filter |-> q.filter,
     projection |-> IF "project" \in DOMAIN q THEN q.project ELSE <<>>,
     sort |-> IF "sort" \in DOMAIN q THEN q.sort ELSE <<>>,
     skip |-> IF "skip" \in DOMAIN q THEN q.skip ELSE 0,
     limit |-> IF "limit" \in DOMAIN q THEN q.limit ELSE 0,
     hint |-> h]

\* C18: warm-up, timed executions and explain all run the query composed by
\* the builder rule from the call's query and hint, with no other modifier;
\* a timed execution and its explain run the identical query.
C18_OneComposedQuery ==
    /\ \A p \in 1..Len(commands) : commands[p][3] = ComposedQuery(query, index_hint)
    /\ \A p, r \in 1..Len(commands) :
          (commands[p][1] = "find" /\ commands[r][1] = "explain"
              /\ commands[p][2] = commands[r][2]) => commands[p][3] = commands[r][3]

====
